---- MODULE Spec2Model ----
(***************************************************************************)
(* Model of the CNC discovery-and-session layer:                           *)
(*   src/src-tauri/src/cnc_comm.rs  (CncManager)                           *)
(*   src/src-tauri/src/lib.rs       (the tauri command handlers, which     *)
(*                                   share one Arc<Mutex<CncManager>>)     *)
(* Every handler locks the mutex, runs one CncManager method and drops the *)
(* guard on return.  The method bodies are split at their blocking network *)
(* calls, so that the interleavings the mutex allows are visible.          *)
(***************************************************************************)
EXTENDS Integers, Sequences, FiniteSets, TLC

(***************************************************************************)
(* Bounds of the model.                                                    *)
(***************************************************************************)
\* number of concurrent invokers of the command surface
NumCallers == 2
\* timeout_ms of discovery, in clock ticks
Budget == 3

Callers == 1..NumCallers
NoOwner == 0

(***************************************************************************)
(* Option<T>: None is the empty sequence, Some(x) the one-element one.     *)
(***************************************************************************)
None == << >>
Some(x) == << x >>
IsSome(o) == o # None
Unwrap(o) == o[1]

(***************************************************************************)
(* Text helpers (Rust str methods), on TLA+ strings.                       *)
(***************************************************************************)
\* str::contains
Contains(s, p) ==
    \E i \in 1..(Len(s) - Len(p) + 1) : SubSeq(s, i, i + Len(p) - 1) = p

\* str::find: index (from 1) of the first occurrence of p in s, 0 if none
Find(s, p) ==
    IF Contains(s, p)
    THEN CHOOSE i \in 1..(Len(s) - Len(p) + 1) :
            /\ SubSeq(s, i, i + Len(p) - 1) = p
            /\ \A j \in 1..(i - 1) : SubSeq(s, j, j + Len(p) - 1) # p
    ELSE 0

IsWhitespace(ch) == ch \in {" ", "\n", "\r", "\t"}

RECURSIVE TrimStart(_)
TrimStart(s) ==
    IF Len(s) > 0 /\ IsWhitespace(SubSeq(s, 1, 1))
    THEN TrimStart(SubSeq(s, 2, Len(s)))
    ELSE s

RECURSIVE TrimEnd(_)
TrimEnd(s) ==
    IF Len(s) > 0 /\ IsWhitespace(SubSeq(s, Len(s), Len(s)))
    THEN TrimEnd(SubSeq(s, 1, Len(s) - 1))
    ELSE s

\* str::trim
Trim(s) == TrimEnd(TrimStart(s))

Digits == <<"0", "1", "2", "3", "4", "5", "6", "7", "8", "9">>
IsDigit(ch) == \E d \in 1..10 : Digits[d] = ch
DigitVal(ch) == (CHOOSE d \in 1..10 : Digits[d] = ch) - 1

\* Display of an unsigned integer
RECURSIVE FmtU(_)
FmtU(n) == IF n < 10 THEN Digits[n + 1] ELSE FmtU(n \div 10) \o Digits[(n % 10) + 1]

\* Ipv4Addr's parser, reading text from position at: done octets are complete,
\* the current one has so many digits and the value octet (no leading zero)
RECURSIVE ReadOctets(_, _, _, _, _)
ReadOctets(text, at, done, digits, octet) ==
    IF at > Len(text) THEN done = 3 /\ digits >= 1
    ELSE IF SubSeq(text, at, at) = "."
         THEN digits >= 1 /\ done < 3 /\ ReadOctets(text, at + 1, done + 1, 0, 0)
         ELSE /\ IsDigit(SubSeq(text, at, at))
              /\ digits < 3
              /\ ~(digits >= 1 /\ octet = 0)
              /\ 10 * octet + DigitVal(SubSeq(text, at, at)) <= 255
              /\ ReadOctets(text, at + 1, done, digits + 1,
                            10 * octet + DigitVal(SubSeq(text, at, at)))

\* "{ip}:{port}".parse::<SocketAddr>() succeeds: ip is a dotted-quad literal
\* (a u16 port always formats to a valid port)
AddrParses(ip) == ReadOctets(ip, 1, 0, 0, 0)

(***************************************************************************)
(* Data of the program.                                                    *)
(***************************************************************************)
\* CncDevice
Device(name, ip, port, mac, firmware) ==
    [name |-> name, ip |-> ip, port |-> port, mac |-> mac, firmware |-> firmware]

\* the fixed address discover_devices probes
cnc_ip == "192.168.86.23"
cnc_port == 10086

\* Result<T>
Ok(v) == [tag |-> "Ok", val |-> v, err |-> ""]
Err(e) == [tag |-> "Err", val |-> "", err |-> e]
OkUnit == Ok("()")
NoRet == [tag |-> "None", val |-> "", err |-> ""]

NotConnectedErr == "Not connected to any device"
WriteErrors == {"write: broken pipe"}
ReadErrors == {"read: timed out", "read: connection reset"}
IoErrors == WriteErrors \cup ReadErrors

(***************************************************************************)
(* Inputs the environment can supply.                                      *)
(***************************************************************************)
\* the devices the front end passes to connect_to_cnc
ConnectArgs ==
    { Device("Genmitsu CNC (Direct)", cnc_ip, cnc_port, None, None),
      Device("Shop CNC", "192.168.1.50", 10086, Some("AA:BB:CC"), None),
      Device("typed by hand", "cnc.local", 10086, None, None) }

\* the texts the front end passes to send_cnc_command
Commands == {"?", "G0X1"}

\* what one read of the session socket can deliver
Replies == {"<Idle|MPos:1,2,3>\r\n", "ok\r\n", ""}

\* arguments of jog_cnc: axis, distance (in tenths), feed rate
JogAxes == {"X"}
JogTenths == {50, -5}
JogFeeds == {500}
\* arguments of set_cnc_work_zero
ZeroAxes == {"X0Y0Z0"}

\* Display of an f32 that is a whole number of tenths: 5.0 -> "5", -0.5 -> "-0.5"
FmtF32(t) ==
    LET a == IF t < 0 THEN 0 - t ELSE t
        body == IF a % 10 = 0 THEN FmtU(a \div 10)
                ELSE FmtU(a \div 10) \o "." \o FmtU(a % 10)
    IN  IF t < 0 THEN "-" \o body ELSE body

\* the command templates of jog, get_status, home, reset, set_work_zero
JogCommand(axis, tenths, feed) == "$J=G91" \o axis \o FmtF32(tenths) \o "F" \o FmtU(feed)
StatusCommand == "?"
HomeCommand == "$H"
\* "\x18", the single byte Ctrl-X, written ^X here
ResetCommand == "^X"
WorkZeroCommand(axes) == "G10L20P1" \o axes

(***************************************************************************)
(* State.                                                                  *)
(***************************************************************************)
VARIABLES
    lock,                \* AppState.cnc_manager: the caller holding the mutex, or NoOwner
    current_connection,  \* CncManager.current_connection: Option<stream>
    device_info,         \* CncManager.device_info: Option<CncDevice>
    sessionStreams,      \* TcpStreams opened by connect and not yet dropped
    probeStreams,        \* TcpStreams opened by probe_device and not yet dropped
    pending,             \* the command written to the session socket whose reply is unread
    pc,                  \* where each caller is
    op,                  \* the handler each caller runs, with its arguments
    pre,                 \* the manager's fields when the handler got the lock
    ret,                 \* the handler's result
    stream,              \* connect's local `stream`
    io,                  \* the network calls of this handler run and their outcomes
    disc                 \* the locals of discover_devices / udp_discovery_fallback / probe_device

mgrVars == <<current_connection, device_info, sessionStreams, pending>>
callVars == <<op, pre, ret, stream, io>>
vars == <<lock, current_connection, device_info, sessionStreams, probeStreams,
          pending, pc, op, pre, ret, stream, io, disc>>

NoOp == [kind |-> "none", device |-> None, cmd |-> ""]
NoPre == [conn |-> None, dev |-> None]
Snapshot == [conn |-> current_connection, dev |-> device_info]

NoDisc ==
    [ devices |-> << >>,      \* discover_devices' devices
      udp_devices |-> << >>,  \* udp_discovery_fallback's devices
      order |-> << >>,        \* the strategies this run has started, in order
      direct |-> NoRet,       \* what the probe of the known address returned
      elapsed |-> 0,          \* start_time.elapsed(), in ticks
      broadcast |-> None,     \* the announcement being probed
      ip |-> "",              \* probe_device's ip
      port |-> 0,             \* probe_device's port
      pstream |-> None,       \* probe_device's stream
      response |-> "",        \* probe_device's response
      presult |-> NoRet,      \* what probe_device returned
      udp_result |-> NoRet,   \* what udp_discovery_fallback returned
      probes |-> 0,           \* probes made by this run
      verified |-> 0,         \* probes of this run that returned a device
      passed |-> {},          \* the <<ip, port>> those probes were made of
      recv |-> [kind |-> "none", datagram |-> None] ]
                              \* what the last recv_from returned (with buf[..size])

\* a fresh socket descriptor: the least one not in use
NewStream ==
    LET used == sessionStreams \cup probeStreams
    IN  CHOOSE n \in 1..(Cardinality(used) + 1) :
            n \notin used /\ \A m \in 1..(n - 1) : m \in used

Init ==
    /\ lock = NoOwner
    /\ current_connection = None
    /\ device_info = None
    /\ sessionStreams = {}
    /\ probeStreams = {}
    /\ pending = None
    /\ pc = [c \in Callers |-> "lock"]
    /\ op = [c \in Callers |-> NoOp]
    /\ pre = [c \in Callers |-> NoPre]
    /\ ret = [c \in Callers |-> NoRet]
    /\ stream = [c \in Callers |-> None]
    /\ io = [c \in Callers |-> << >>]
    /\ disc = [c \in Callers |-> NoDisc]

(***************************************************************************)
(* lib.rs: the handlers.  Each starts with state.cnc_manager.lock() and    *)
(* holds the guard until it returns.                                       *)
(***************************************************************************)
\* faulty variant of LockManager: the guard is handed out while another caller holds it
LockManagerNoExclusion(c) ==
    /\ pc[c] = "lock"
    /\ lock' = c

\* Mutex::lock by caller c
LockManager(c) ==
    /\ pc[c] = "lock"
    /\ lock = NoOwner
    /\ lock' = c

\* with the guard, the handler enters the manager's method at `label`
Enter(c, label, o) ==
    /\ pc' = [pc EXCEPT ![c] = label]
    /\ op' = [op EXCEPT ![c] = o]
    /\ pre' = [pre EXCEPT ![c] = Snapshot]
    /\ UNCHANGED <<mgrVars, probeStreams, ret, stream, io, disc>>

connect_to_cnc(c) ==
    /\ LockManager(c)
    /\ \E d \in ConnectArgs :
          Enter(c, "connect", [kind |-> "connect", device |-> Some(d), cmd |-> ""])

disconnect_cnc(c) ==
    /\ LockManager(c)
    /\ Enter(c, "disconnect", [kind |-> "disconnect", device |-> None, cmd |-> ""])

send_cnc_command(c) ==
    /\ LockManager(c)
    /\ \E t \in Commands :
          Enter(c, "send_command", [kind |-> "send_command", device |-> None, cmd |-> t])

jog_cnc(c) ==
    /\ LockManager(c)
    /\ \E a \in JogAxes, t \in JogTenths, f \in JogFeeds :
          Enter(c, "send_command", [kind |-> "jog", device |-> None, cmd |-> JogCommand(a, t, f)])

get_cnc_status(c) ==
    /\ LockManager(c)
    /\ Enter(c, "send_command", [kind |-> "get_status", device |-> None, cmd |-> StatusCommand])

home_cnc(c) ==
    /\ LockManager(c)
    /\ Enter(c, "send_command", [kind |-> "home", device |-> None, cmd |-> HomeCommand])

reset_cnc(c) ==
    /\ LockManager(c)
    /\ Enter(c, "send_command", [kind |-> "reset", device |-> None, cmd |-> ResetCommand])

set_cnc_work_zero(c) ==
    /\ LockManager(c)
    /\ \E x \in ZeroAxes :
          Enter(c, "send_command", [kind |-> "set_work_zero", device |-> None, cmd |-> WorkZeroCommand(x)])

discover_cnc_devices(c) ==
    /\ LockManager(c)
    /\ Enter(c, "discover", [kind |-> "discover", device |-> None, cmd |-> ""])

\* the handler returns: its result goes to the front end and the guard is dropped
Return(c) ==
    /\ pc[c] = "return"
    /\ lock' = NoOwner
    /\ pc' = [pc EXCEPT ![c] = "lock"]
    /\ op' = [op EXCEPT ![c] = NoOp]
    /\ pre' = [pre EXCEPT ![c] = NoPre]
    /\ ret' = [ret EXCEPT ![c] = NoRet]
    /\ stream' = [stream EXCEPT ![c] = None]
    /\ io' = [io EXCEPT ![c] = << >>]
    /\ disc' = [disc EXCEPT ![c] = NoDisc]
    /\ UNCHANGED <<mgrVars, probeStreams>>

\* the operations built on send_command
SendKinds == {"send_command", "jog", "get_status", "home", "reset", "set_work_zero"}

(***************************************************************************)
(* cnc_comm.rs: the session manager.                                       *)
(***************************************************************************)
Log(c, event) == io' = [io EXCEPT ![c] = Append(@, event)]

Returns(c, r) ==
    /\ ret' = [ret EXCEPT ![c] = r]
    /\ pc' = [pc EXCEPT ![c] = "return"]

\* assigning Some(s) to current_connection drops the stream it held
StoreConnection(s) ==
    /\ current_connection' = Some(s)
    /\ sessionStreams' = (sessionStreams \ (IF IsSome(current_connection)
                                             THEN {Unwrap(current_connection)}
                                             ELSE {})) \cup {s}

\* connect, lines 261-265: parse the address, TcpStream::connect_timeout(5000 ms)
ConnectOpen(c) ==
    /\ pc[c] = "connect"
    /\ LET d == Unwrap(op[c].device)
       IN  IF ~AddrParses(d.ip)
           THEN /\ Returns(c, Err("invalid socket address syntax"))
                /\ Log(c, "parse:err")
                /\ UNCHANGED <<sessionStreams, stream>>
           ELSE \/ /\ Returns(c, Err("connect: timed out"))
                   /\ Log(c, "open:err")
                   /\ UNCHANGED <<sessionStreams, stream>>
                \/ /\ stream' = [stream EXCEPT ![c] = Some(NewStream)]
                   /\ sessionStreams' = sessionStreams \cup {NewStream}
                   /\ Log(c, "open:ok")
                   /\ pc' = [pc EXCEPT ![c] = "connect_timeouts"]
                   /\ UNCHANGED ret
    /\ UNCHANGED <<lock, current_connection, device_info, probeStreams, pending, op, pre, disc>>

\* faulty variant of ConnectSetTimeouts: the stream and the device are stored
\* before the timeouts are set, so a failure leaves them stored
ConnectSetTimeoutsAfterStore(c) ==
    /\ pc[c] = "connect_timeouts"
    /\ \/ /\ \E e \in {"set_read_timeout", "set_write_timeout"} : Returns(c, Err(e))
          /\ StoreConnection(Unwrap(stream[c]))
          /\ device_info' = op[c].device
          /\ Log(c, "timeouts:err")
          /\ UNCHANGED stream
       \/ /\ pc' = [pc EXCEPT ![c] = "connect_store"]
          /\ Log(c, "timeouts:ok")
          /\ UNCHANGED <<current_connection, device_info, sessionStreams, stream, ret>>
    /\ UNCHANGED <<lock, probeStreams, pending, op, pre, disc>>

\* connect, lines 268-269: set_read_timeout, set_write_timeout; on `?` the local
\* stream is dropped
ConnectSetTimeouts(c) ==
    /\ pc[c] = "connect_timeouts"
    /\ \/ /\ \E e \in {"set_read_timeout", "set_write_timeout"} : Returns(c, Err(e))
          /\ sessionStreams' = sessionStreams \ {Unwrap(stream[c])}
          /\ stream' = [stream EXCEPT ![c] = None]
          /\ Log(c, "timeouts:err")
       \/ /\ pc' = [pc EXCEPT ![c] = "connect_store"]
          /\ Log(c, "timeouts:ok")
          /\ UNCHANGED <<sessionStreams, stream, ret>>
    /\ UNCHANGED <<lock, current_connection, device_info, probeStreams, pending, op, pre, disc>>

\* faulty variant of ConnectStore: the device is not recorded
ConnectStoreNoDevice(c) ==
    /\ pc[c] = "connect_store"
    /\ StoreConnection(Unwrap(stream[c]))
    /\ op' = [op EXCEPT ![c].cmd = "?"]
    /\ pc' = [pc EXCEPT ![c] = "send_command"]
    /\ UNCHANGED <<lock, device_info, probeStreams, pending, pre, ret, stream, io, disc>>

\* connect, lines 271-275: store the stream and the device, then call send_command("?")
\* (stream[c] goes on naming the stream this call opened, now owned by the manager)
ConnectStore(c) ==
    /\ pc[c] = "connect_store"
    /\ StoreConnection(Unwrap(stream[c]))
    /\ device_info' = op[c].device
    /\ op' = [op EXCEPT ![c].cmd = "?"]
    /\ pc' = [pc EXCEPT ![c] = "send_command"]
    /\ UNCHANGED <<lock, probeStreams, pending, pre, ret, stream, io, disc>>

\* faulty variant of SendCommandResult: connect propagates the wake query's
\* result (`?` instead of `let _ =`)
SendCommandResultPropagates(c, r) == r

\* what the method running send_command makes of its result: connect discards it
\* (`let _ =`) and returns Ok(()), the others return it
SendCommandResult(c, r) == IF op[c].kind = "connect" THEN OkUnit ELSE r

\* faulty variant of SendWrite: a failed write is reported as "not connected"
SendWriteMapsErrors(c) ==
    /\ pc[c] = "send_command"
    /\ IF current_connection = None
       THEN /\ Returns(c, SendCommandResult(c, Err(NotConnectedErr)))
            /\ UNCHANGED <<pending, io>>
       ELSE \/ /\ pending' = Some([by |-> c, stream |-> Unwrap(current_connection),
                                   data |-> op[c].cmd \o "\n"])
               /\ Log(c, "write:ok")
               /\ pc' = [pc EXCEPT ![c] = "send_read"]
               /\ UNCHANGED ret
            \/ /\ Returns(c, SendCommandResult(c, Err(NotConnectedErr)))
               /\ Log(c, "write:err")
               /\ UNCHANGED pending
    /\ UNCHANGED <<lock, current_connection, device_info, sessionStreams, probeStreams,
                   op, pre, stream, disc>>

\* faulty variant of SendWrite: the command is written without its newline
SendWriteNoNewline(c) ==
    /\ pc[c] = "send_command"
    /\ IF current_connection = None
       THEN /\ Returns(c, SendCommandResult(c, Err(NotConnectedErr)))
            /\ UNCHANGED <<pending, io>>
       ELSE \/ /\ pending' = Some([by |-> c, stream |-> Unwrap(current_connection),
                                   data |-> op[c].cmd])
               /\ Log(c, "write:ok")
               /\ pc' = [pc EXCEPT ![c] = "send_read"]
               /\ UNCHANGED ret
            \/ /\ \E e \in WriteErrors : Returns(c, SendCommandResult(c, Err(e)))
               /\ Log(c, "write:err")
               /\ UNCHANGED pending
    /\ UNCHANGED <<lock, current_connection, device_info, sessionStreams, probeStreams,
                   op, pre, stream, disc>>

\* send_command, lines 282-284 and 292: the connection check and write_all
SendWrite(c) ==
    /\ pc[c] = "send_command"
    /\ IF current_connection = None
       THEN /\ Returns(c, SendCommandResult(c, Err(NotConnectedErr)))
            /\ UNCHANGED <<pending, io>>
       ELSE \/ /\ pending' = Some([by |-> c, stream |-> Unwrap(current_connection),
                                   data |-> op[c].cmd \o "\n"])
               /\ Log(c, "write:ok")
               /\ pc' = [pc EXCEPT ![c] = "send_read"]
               /\ UNCHANGED ret
            \/ /\ \E e \in WriteErrors : Returns(c, SendCommandResult(c, Err(e)))
               /\ Log(c, "write:err")
               /\ UNCHANGED pending
    /\ UNCHANGED <<lock, current_connection, device_info, sessionStreams, probeStreams,
                   op, pre, stream, disc>>

\* faulty variant of SendRead: a failed read drops the session
SendReadDropsOnError(c) ==
    /\ pc[c] = "send_read"
    /\ \/ /\ \E r \in Replies : Returns(c, SendCommandResult(c, Ok(Trim(r))))
          /\ Log(c, "read:ok")
          /\ UNCHANGED <<current_connection, device_info, sessionStreams>>
       \/ /\ \E e \in ReadErrors : Returns(c, SendCommandResult(c, Err(e)))
          /\ Log(c, "read:err")
          /\ current_connection' = None
          /\ device_info' = None
          /\ sessionStreams' = sessionStreams \ (IF IsSome(current_connection)
                                                 THEN {Unwrap(current_connection)}
                                                 ELSE {})
    /\ pending' = None
    /\ UNCHANGED <<lock, probeStreams, op, pre, stream, disc>>

\* send_command, lines 286-290: one read, from_utf8_lossy, trim
SendRead(c) ==
    /\ pc[c] = "send_read"
    /\ \/ /\ \E r \in Replies : Returns(c, SendCommandResult(c, Ok(Trim(r))))
          /\ Log(c, "read:ok")
       \/ /\ \E e \in ReadErrors : Returns(c, SendCommandResult(c, Err(e)))
          /\ Log(c, "read:err")
    /\ pending' = None
    /\ UNCHANGED <<lock, current_connection, device_info, sessionStreams, probeStreams,
                   op, pre, stream, disc>>

\* faulty variant of Disconnect: the device binding is not cleared
DisconnectKeepsDevice(c) ==
    /\ pc[c] = "disconnect"
    /\ current_connection' = None
    /\ sessionStreams' = sessionStreams \ (IF IsSome(current_connection)
                                           THEN {Unwrap(current_connection)}
                                           ELSE {})
    /\ Returns(c, OkUnit)
    /\ UNCHANGED <<lock, device_info, probeStreams, pending, op, pre, stream, io, disc>>

\* disconnect, lines 309-312, and disconnect_cnc's Ok(())
Disconnect(c) ==
    /\ pc[c] = "disconnect"
    /\ current_connection' = None
    /\ device_info' = None
    /\ sessionStreams' = sessionStreams \ (IF IsSome(current_connection)
                                           THEN {Unwrap(current_connection)}
                                           ELSE {})
    /\ Returns(c, OkUnit)
    /\ UNCHANGED <<lock, probeStreams, pending, op, pre, stream, io, disc>>

\* get_connection_status
get_connection_status ==
    IF IsSome(device_info)
    THEN Some([device |-> Unwrap(device_info), connected |-> IsSome(current_connection)])
    ELSE None

(***************************************************************************)
(* cnc_comm.rs: discovery.                                                 *)
(***************************************************************************)
\* a JSON member: key, type of the value, and the value
Str(k, v) == [k |-> k, t |-> "string", s |-> v, n |-> 0]
Num(k, v) == [k |-> k, t |-> "number", s |-> "", n |-> v]

\* a datagram: whether its bytes are UTF-8, and the JSON object they spell
\* (None when they spell no complete JSON object)
Datagram(utf8, json) == [utf8 |-> utf8, json |-> json]

Datagrams ==
    { Datagram(FALSE, None),
      Datagram(TRUE, None),
      Datagram(TRUE, Some({Str("ip", "192.168.1.50"), Num("port", 10086),
                           Str("name", "Shop CNC"), Str("mac", "AA:BB:CC")})),
      Datagram(TRUE, Some({Str("ip", "192.168.1.50"), Str("port", "10086"),
                           Str("name", "Shop CNC"), Str("uuid", "AA:BB:CC")})),
      Datagram(TRUE, Some({Str("ip", "192.168.1.51"), Num("port", 10086),
                           Str("name", "Garage CNC"), Str("uuid", "DD:EE:FF")})),
      Datagram(TRUE, Some({Str("ip", "192.168.1.50"), Str("name", "Shop CNC")})) }

\* what the read after "?\n" can deliver to probe_device
ProbeReplies == {"<Idle|MPos:1,2,3>", "[VER:1.1f]", "<Alarm>", "<Run>", "ALARM:1", "ok", ""}
\* what the read after "$I\n" can deliver to probe_device
VersionReplies == {"Grbl 1.1f\n", "ok"}

Members(obj, k) == {m \in obj : m.k = k}

\* serde_json::from_str::<GenmitsuBroadcast>: ip and name are strings, port is a
\* number that fits u16, mac is an optional string; other keys are ignored
GenmitsuBroadcast(obj) ==
    IF /\ \E m \in Members(obj, "ip") : m.t = "string"
       /\ \E m \in Members(obj, "port") : m.t = "number" /\ m.n \in 0..65535
       /\ \E m \in Members(obj, "name") : m.t = "string"
       /\ \A m \in Members(obj, "mac") : m.t = "string"
    THEN Some([ ip |-> (CHOOSE m \in Members(obj, "ip") : TRUE).s,
                port |-> (CHOOSE m \in Members(obj, "port") : TRUE).n,
                name |-> (CHOOSE m \in Members(obj, "name") : TRUE).s,
                mac |-> IF Members(obj, "mac") = {} THEN None
                        ELSE Some((CHOOSE m \in Members(obj, "mac") : TRUE).s) ])
    ELSE None

\* faulty variant of IsGrbl: the Alarm marker is left out
IsGrblWithoutAlarm(response) ==
    \/ Contains(response, "Idle")
    \/ Contains(response, "Run")
    \/ Contains(response, "MPos")
    \/ Contains(response, "VER:")

\* probe_device, lines 219-221
IsGrbl(response) ==
    \/ Contains(response, "Idle")
    \/ Contains(response, "Alarm")
    \/ Contains(response, "Run")
    \/ Contains(response, "MPos")
    \/ Contains(response, "VER:")

extract_firmware_info(response) ==
    LET start == Find(response, "Grbl")
        rest == SubSeq(response, start, Len(response))
        end == Find(rest, "\n")
    IN  IF start > 0 /\ end > 0 THEN Some(SubSeq(rest, 1, end - 1)) ELSE None

Last(q) == q[Len(q)]

\* faulty variant of ProbeReturns: the probe's stream stays open
ProbeReturnsLeaksStream(c, r) ==
    /\ disc' = [disc EXCEPT ![c].presult = r, ![c].pstream = None, ![c].response = "",
                            ![c].verified = IF r.tag = "Ok" THEN @ + 1 ELSE @,
                            ![c].passed = IF r.tag = "Ok"
                                          THEN @ \cup {<<disc[c].ip, disc[c].port>>}
                                          ELSE @]
    /\ UNCHANGED probeStreams
    /\ pc' = [pc EXCEPT ![c] = IF Last(disc[c].order) = "direct"
                               THEN "discover_direct" ELSE "udp_push"]

\* probe_device returns r to the strategy that called it; its stream is dropped
ProbeReturns(c, r) ==
    /\ disc' = [disc EXCEPT ![c].presult = r, ![c].pstream = None, ![c].response = "",
                            ![c].verified = IF r.tag = "Ok" THEN @ + 1 ELSE @,
                            ![c].passed = IF r.tag = "Ok"
                                          THEN @ \cup {<<disc[c].ip, disc[c].port>>}
                                          ELSE @]
    /\ probeStreams' = probeStreams \ (IF IsSome(disc[c].pstream)
                                       THEN {Unwrap(disc[c].pstream)} ELSE {})
    /\ pc' = [pc EXCEPT ![c] = IF Last(disc[c].order) = "direct"
                               THEN "discover_direct" ELSE "udp_push"]

\* probe_device, lines 197-203 and 245
ProbeConnect(c) ==
    /\ pc[c] = "probe"
    /\ IF ~AddrParses(disc[c].ip)
       THEN ProbeReturns(c, Err("invalid socket address syntax"))
       ELSE \/ ProbeReturns(c, Err("Connection failed"))
            \/ /\ disc' = [disc EXCEPT ![c].pstream = Some(NewStream)]
               /\ probeStreams' = probeStreams \cup {NewStream}
               /\ pc' = [pc EXCEPT ![c] = "probe_timeouts"]
    /\ UNCHANGED <<lock, mgrVars, callVars>>

\* probe_device, lines 205-206
ProbeSetTimeouts(c) ==
    /\ pc[c] = "probe_timeouts"
    /\ \/ \E e \in {"set_read_timeout", "set_write_timeout"} : ProbeReturns(c, Err(e))
       \/ /\ pc' = [pc EXCEPT ![c] = "probe_query"]
          /\ UNCHANGED <<disc, probeStreams>>
    /\ UNCHANGED <<lock, mgrVars, callVars>>

\* probe_device, lines 209-216: write "?\n" (its result is ignored) and one read;
\* a failed read leaves the response empty
ProbeQuery(c) ==
    /\ pc[c] = "probe_query"
    /\ \E r \in ProbeReplies : disc' = [disc EXCEPT ![c].response = r]
    /\ pc' = [pc EXCEPT ![c] = "probe_classify"]
    /\ UNCHANGED <<lock, mgrVars, callVars, probeStreams>>

ProbedDevice(c, firmware) ==
    Device("CNC at " \o disc[c].ip, disc[c].ip, disc[c].port, None, firmware)

\* probe_device, lines 219-225 and 234-243
ProbeClassify(c) ==
    /\ pc[c] = "probe_classify"
    /\ IF IsGrbl(disc[c].response)
       THEN IF Contains(disc[c].response, "VER:")
            THEN /\ pc' = [pc EXCEPT ![c] = "probe_version"]
                 /\ UNCHANGED <<disc, probeStreams>>
            ELSE ProbeReturns(c, Ok(ProbedDevice(c, None)))
       ELSE ProbeReturns(c, Err("Not a CNC device - unexpected response: " \o disc[c].response))
    /\ UNCHANGED <<lock, mgrVars, callVars>>

\* probe_device, lines 227-240: write "$I\n" and one read; a failed read leaves
\* firmware None
ProbeVersion(c) ==
    /\ pc[c] = "probe_version"
    /\ \/ \E v \in VersionReplies : ProbeReturns(c, Ok(ProbedDevice(c, extract_firmware_info(v))))
       \/ ProbeReturns(c, Ok(ProbedDevice(c, None)))
    /\ UNCHANGED <<lock, mgrVars, callVars>>

\* discover_devices, lines 47-56: the probe of the known address
DiscoverStart(c) ==
    /\ pc[c] = "discover"
    /\ disc' = [disc EXCEPT ![c].order = <<"direct">>, ![c].ip = cnc_ip, ![c].port = cnc_port,
                            ![c].probes = @ + 1]
    /\ pc' = [pc EXCEPT ![c] = "probe"]
    /\ UNCHANGED <<lock, mgrVars, callVars, probeStreams>>

\* faulty variant of DiscoverDirect: the UDP strategy runs whatever the probe returned
DiscoverDirectAlwaysUdp(c) ==
    /\ pc[c] = "discover_direct"
    /\ IF disc[c].presult.tag = "Ok"
       THEN LET device == [disc[c].presult.val EXCEPT !.name = "Genmitsu CNC (Direct)"]
            IN  disc' = [disc EXCEPT ![c].devices = Append(@, device),
                                     ![c].order = Append(@, "udp"),
                                     ![c].direct = disc[c].presult]
       ELSE disc' = [disc EXCEPT ![c].order = Append(@, "udp"),
                                 ![c].direct = disc[c].presult]
    /\ pc' = [pc EXCEPT ![c] = "udp_setup"]
    /\ UNCHANGED <<lock, mgrVars, probeStreams, callVars>>

\* discover_devices, lines 56-67 and 78: the match on the probe's result
DiscoverDirect(c) ==
    /\ pc[c] = "discover_direct"
    /\ IF disc[c].presult.tag = "Ok"
       THEN LET device == [disc[c].presult.val EXCEPT !.name = "Genmitsu CNC (Direct)"]
            IN  /\ disc' = [disc EXCEPT ![c].devices = Append(@, device),
                                        ![c].direct = disc[c].presult]
                /\ Returns(c, Ok(disc'[c].devices))
       ELSE /\ disc' = [disc EXCEPT ![c].order = Append(@, "udp"),
                                    ![c].direct = disc[c].presult]
            /\ pc' = [pc EXCEPT ![c] = "udp_setup"]
            /\ UNCHANGED ret
    /\ UNCHANGED <<lock, mgrVars, probeStreams, op, pre, stream, io>>

\* udp_discovery_fallback returns r
UdpReturns(c, r) ==
    /\ disc' = [disc EXCEPT ![c].udp_result = r]
    /\ pc' = [pc EXCEPT ![c] = "discover_udp"]

\* udp_discovery_fallback, lines 83-93
UdpSetup(c) ==
    /\ pc[c] = "udp_setup"
    /\ \/ \E e \in {"get_local_ip_address", "bind", "set_read_timeout"} : UdpReturns(c, Err(e))
       \/ /\ disc' = [disc EXCEPT ![c].udp_devices = << >>, ![c].elapsed = 0]
          /\ pc' = [pc EXCEPT ![c] = "udp_loop"]
    /\ UNCHANGED <<lock, mgrVars, callVars, probeStreams>>

\* faulty variant of UdpLoop: the while condition does not test the elapsed time
UdpLoopNoBudget(c) ==
    /\ pc[c] = "udp_loop"
    /\ LET now == IF disc[c].elapsed < Budget THEN disc[c].elapsed + 1 ELSE Budget
       IN  \/ \E d \in Datagrams :
                LET b == IF d.utf8 /\ IsSome(d.json)
                         THEN GenmitsuBroadcast(Unwrap(d.json)) ELSE None
                    got == [kind |-> "datagram", datagram |-> Some(d)]
                IN  IF IsSome(b)
                    THEN /\ disc' = [disc EXCEPT ![c].elapsed = now, ![c].recv = got,
                                     ![c].broadcast = b, ![c].ip = Unwrap(b).ip,
                                     ![c].port = Unwrap(b).port,
                                     ![c].probes = IF @ < Budget + 1 THEN @ + 1 ELSE @]
                         /\ pc' = [pc EXCEPT ![c] = "probe"]
                    ELSE /\ disc' = [disc EXCEPT ![c].elapsed = now, ![c].recv = got]
                         /\ UNCHANGED pc
           \/ /\ disc' = [disc EXCEPT ![c].udp_result = Ok(disc[c].udp_devices),
                                       ![c].elapsed = now,
                                       ![c].recv = [kind |-> "timed out", datagram |-> None]]
              /\ pc' = [pc EXCEPT ![c] = "discover_udp"]
           \/ /\ disc' = [disc EXCEPT ![c].elapsed = now,
                                       ![c].recv = [kind |-> "error", datagram |-> None]]
              /\ UNCHANGED pc
    /\ UNCHANGED <<lock, mgrVars, callVars, probeStreams>>

\* udp_discovery_fallback, lines 94-103 and 109-127: the loop test and one
\* recv_from; the clock has advanced by the time recv_from returns
UdpLoop(c) ==
    /\ pc[c] = "udp_loop"
    /\ IF ~(disc[c].elapsed < Budget)
       THEN UdpReturns(c, Ok(disc[c].udp_devices))
       ELSE \E dt \in 1..(Budget - disc[c].elapsed) :
              LET now == disc[c].elapsed + dt
              IN  \/ \E d \in Datagrams :
                       LET b == IF d.utf8 /\ IsSome(d.json)
                                THEN GenmitsuBroadcast(Unwrap(d.json)) ELSE None
                           got == [kind |-> "datagram", datagram |-> Some(d)]
                       IN  IF IsSome(b)
                           THEN /\ disc' = [disc EXCEPT ![c].elapsed = now,
                                                        ![c].recv = got,
                                                        ![c].broadcast = b,
                                                        ![c].ip = Unwrap(b).ip,
                                                        ![c].port = Unwrap(b).port,
                                                        ![c].probes = @ + 1]
                                /\ pc' = [pc EXCEPT ![c] = "probe"]
                           ELSE /\ disc' = [disc EXCEPT ![c].elapsed = now, ![c].recv = got]
                                /\ UNCHANGED pc
                  \* ErrorKind::TimedOut: break
                  \/ /\ disc' = [disc EXCEPT ![c].udp_result = Ok(disc[c].udp_devices),
                                              ![c].elapsed = now,
                                              ![c].recv = [kind |-> "timed out", datagram |-> None]]
                     /\ pc' = [pc EXCEPT ![c] = "discover_udp"]
                  \* any other error kind: the loop goes on
                  \/ /\ disc' = [disc EXCEPT ![c].elapsed = now,
                                              ![c].recv = [kind |-> "error", datagram |-> None]]
                     /\ UNCHANGED pc
    /\ UNCHANGED <<lock, mgrVars, callVars, probeStreams>>

\* faulty variant of UdpPush: the announced address is pushed whatever the probe
\* returned
UdpPushUnverified(c) ==
    /\ pc[c] = "udp_push"
    /\ LET b == Unwrap(disc[c].broadcast)
           device == Device(b.name, b.ip, b.port, b.mac, None)
       IN  disc' = [disc EXCEPT ![c].udp_devices = Append(@, device),
                                ![c].broadcast = None, ![c].presult = NoRet]
    /\ pc' = [pc EXCEPT ![c] = "udp_loop"]
    /\ UNCHANGED <<lock, mgrVars, callVars, probeStreams>>

\* faulty variant of UdpPush: a failed probe ends udp_discovery_fallback with its
\* error (`?` on probe_device)
UdpPushAbortsOnFailure(c) ==
    /\ pc[c] = "udp_push"
    /\ IF disc[c].presult.tag = "Ok"
       THEN LET b == Unwrap(disc[c].broadcast)
                device == [disc[c].presult.val EXCEPT !.name = b.name, !.mac = b.mac]
            IN  /\ disc' = [disc EXCEPT ![c].udp_devices = Append(@, device),
                                        ![c].broadcast = None, ![c].presult = NoRet]
                /\ pc' = [pc EXCEPT ![c] = "udp_loop"]
       ELSE UdpReturns(c, disc[c].presult)
    /\ UNCHANGED <<lock, mgrVars, callVars, probeStreams>>

\* udp_discovery_fallback, lines 103-107: the probed device takes the
\* announcement's name and mac and is pushed
UdpPush(c) ==
    /\ pc[c] = "udp_push"
    /\ IF disc[c].presult.tag = "Ok"
       THEN LET b == Unwrap(disc[c].broadcast)
                device == [disc[c].presult.val EXCEPT !.name = b.name, !.mac = b.mac]
            IN  disc' = [disc EXCEPT ![c].udp_devices = Append(@, device),
                                     ![c].broadcast = None, ![c].presult = NoRet]
       ELSE disc' = [disc EXCEPT ![c].broadcast = None, ![c].presult = NoRet]
    /\ pc' = [pc EXCEPT ![c] = "udp_loop"]
    /\ UNCHANGED <<lock, mgrVars, callVars, probeStreams>>

\* faulty variant of DiscoverUdp: udp_discovery_fallback's error is propagated (`?`)
DiscoverUdpPropagates(c) ==
    /\ pc[c] = "discover_udp"
    /\ IF disc[c].udp_result.tag = "Ok"
       THEN /\ disc' = [disc EXCEPT ![c].devices = @ \o disc[c].udp_result.val]
            /\ Returns(c, Ok(disc'[c].devices))
       ELSE /\ Returns(c, disc[c].udp_result)
            /\ UNCHANGED disc
    /\ UNCHANGED <<lock, mgrVars, probeStreams, op, pre, stream, io>>

\* discover_devices, lines 67-78: the match on udp_discovery_fallback's result
DiscoverUdp(c) ==
    /\ pc[c] = "discover_udp"
    /\ LET found == IF disc[c].udp_result.tag = "Ok"
                    THEN disc[c].devices \o disc[c].udp_result.val
                    ELSE disc[c].devices
       IN  /\ disc' = [disc EXCEPT ![c].devices = found]
           /\ Returns(c, Ok(found))
    /\ UNCHANGED <<lock, mgrVars, probeStreams, op, pre, stream, io>>

(***************************************************************************)
(* The specification.                                                      *)
(***************************************************************************)
Next ==
    \E c \in Callers :
        \/ discover_cnc_devices(c)
        \/ connect_to_cnc(c)
        \/ disconnect_cnc(c)
        \/ send_cnc_command(c)
        \/ jog_cnc(c)
        \/ get_cnc_status(c)
        \/ home_cnc(c)
        \/ reset_cnc(c)
        \/ set_cnc_work_zero(c)
        \/ Return(c)
        \/ ConnectOpen(c)
        \/ ConnectSetTimeouts(c)
        \/ ConnectStore(c)
        \/ SendWrite(c)
        \/ SendRead(c)
        \/ Disconnect(c)
        \/ DiscoverStart(c)
        \/ DiscoverDirect(c)
        \/ DiscoverUdp(c)
        \/ UdpSetup(c)
        \/ UdpLoop(c)
        \/ UdpPush(c)
        \/ ProbeConnect(c)
        \/ ProbeSetTimeouts(c)
        \/ ProbeQuery(c)
        \/ ProbeClassify(c)
        \/ ProbeVersion(c)

Spec == Init /\ [][Next]_vars

\* a step of the discovery caller c runs: its thread is scheduled, and every
\* connect, read, write and recv_from it waits in is bounded by a timeout
DiscoverStep(c) ==
    \/ DiscoverStart(c)
    \/ DiscoverDirect(c)
    \/ DiscoverUdp(c)
    \/ UdpSetup(c)
    \/ UdpLoop(c)
    \/ UdpPush(c)
    \/ ProbeConnect(c)
    \/ ProbeSetTimeouts(c)
    \/ ProbeQuery(c)
    \/ ProbeClassify(c)
    \/ ProbeVersion(c)

FairSpec == Spec /\ \A c \in Callers : WF_vars(DiscoverStep(c))

(***************************************************************************)
(* Properties.                                                             *)
(***************************************************************************)
Returning(c, kinds) == pc[c] = "return" /\ op[c].kind \in kinds

Count(q, x) == Cardinality({i \in 1..Len(q) : q[i] = x})

\* the session streams the manager held when the handler began
HeldBefore(c) == IF IsSome(pre[c].conn) THEN {Unwrap(pre[c].conn)} ELSE {}

C2_NotConnectedIffDisconnected ==
    \A c \in Callers :
        Returning(c, SendKinds) =>
            /\ (ret[c] = Err(NotConnectedErr)) <=> (pre[c].conn = None)
            /\ (IsSome(pre[c].conn) /\ ret[c].tag = "Err") => ret[c].err \in IoErrors

\* send_command failing while a connection is held
C2_Witness ==
    \E c \in Callers :
        /\ Returning(c, SendKinds)
        /\ IsSome(pre[c].conn)
        /\ ret[c].tag = "Err"

\* C3: disconnect can always run, returns success and ends with no connection and
\* no device binding, whether or not a connection was held before.
C3_DisconnectIdempotent ==
    \A c \in Callers :
        /\ pc[c] = "disconnect" => ENABLED Disconnect(c)
        /\ Returning(c, {"disconnect"}) =>
              /\ ret[c] = OkUnit
              /\ current_connection = None
              /\ device_info = None
              /\ sessionStreams = {}

\* disconnect returning after it was called with nothing connected
C3_Witness ==
    \E c \in Callers :
        /\ Returning(c, {"disconnect"})
        /\ pre[c] = NoPre

\* C4 as stated: a connect made while a connection is held opens no new stream and
\* leaves the held connection and the device binding as they were.
C4_ConnectOnlyFromDisconnected ==
    \A c \in Callers :
        (op[c].kind = "connect" /\ IsSome(pre[c].conn)) =>
            /\ current_connection = pre[c].conn
            /\ device_info = pre[c].dev
            /\ sessionStreams = HeldBefore(c)

\* C5: once connect has opened the socket and set its timeouts it returns Ok(())
\* with the manager holding that stream and that device, whatever the one '?'
\* exchange does.
C5_ConnectToleratesWake ==
    \A c \in Callers :
        /\ (op[c].kind = "connect" /\ pc[c] = "send_read") =>
              /\ Unwrap(pending).data = "?\n"
              /\ Unwrap(pending).stream = Unwrap(stream[c])
        /\ (/\ Returning(c, {"connect"})
            /\ Len(io[c]) >= 2
            /\ io[c][1] = "open:ok"
            /\ io[c][2] = "timeouts:ok") =>
              /\ ret[c] = OkUnit
              /\ IsSome(stream[c])
              /\ current_connection = stream[c]
              /\ device_info = op[c].device
              /\ Count(io[c], "write:ok") + Count(io[c], "write:err") = 1
              /\ Count(io[c], "read:ok") + Count(io[c], "read:err") = Count(io[c], "write:ok")

\* connect returning after the read of the wake query's reply failed
C5_Witness ==
    \E c \in Callers :
        /\ Returning(c, {"connect"})
        /\ io[c] = <<"open:ok", "timeouts:ok", "write:ok", "read:err">>

\* C6: a connect that returns an error leaves the manager's connection and device
\* binding as they were when it was called, and leaves no stream open.
C6_FailedConnectKeepsState ==
    \A c \in Callers :
        (Returning(c, {"connect"}) /\ ret[c].tag = "Err") =>
            /\ current_connection = pre[c].conn
            /\ device_info = pre[c].dev
            /\ sessionStreams = HeldBefore(c)

\* connect failing at the timeouts, with nothing connected before
C6_Witness ==
    \E c \in Callers :
        /\ Returning(c, {"connect"})
        /\ io[c] = <<"open:ok", "timeouts:err">>
        /\ pre[c] = NoPre

\* C7 as stated: after send_command fails with an I/O error while connected, the
\* manager holds no session any more.
C7_IoErrorDestroysSession ==
    \A c \in Callers :
        (Returning(c, SendKinds) /\ IsSome(pre[c].conn) /\ ret[c].err \in IoErrors) =>
            /\ current_connection = None
            /\ device_info = None

\* C7 amended: an I/O error of send_command does not end the session: the manager
\* still holds the same open stream and device binding, and the held connection
\* becomes None only in disconnect.
C7_IoErrorKeepsSession ==
    /\ [](\A c \in Callers :
            (Returning(c, SendKinds) /\ IsSome(pre[c].conn) /\ ret[c].err \in IoErrors) =>
                /\ current_connection = pre[c].conn
                /\ device_info = pre[c].dev
                /\ Unwrap(current_connection) \in sessionStreams)
    /\ [][(IsSome(current_connection) /\ current_connection' = None) =>
            \E c \in Callers : pc[c] = "disconnect"]_vars

\* send_command returning a read error with a connection held
C7_Witness ==
    \E c \in Callers :
        /\ Returning(c, SendKinds)
        /\ IsSome(pre[c].conn)
        /\ ret[c].err \in ReadErrors

\* C8: while a caller is between its write of a command and its read of the
\* reply, the exchange in flight is its own, and no step of another caller writes
\* to or reads from the session socket or changes the manager's session.
C8_ExchangesNeverInterleave ==
    /\ [](\A c \in Callers :
            pc[c] = "send_read" =>
                /\ IsSome(pending)
                /\ Unwrap(pending).by = c
                /\ current_connection = Some(Unwrap(pending).stream))
    /\ [][\A c \in Callers :
            (pc[c] = "send_read" /\ pc'[c] = "send_read") =>
                /\ pending' = pending
                /\ current_connection' = current_connection
                /\ device_info' = device_info
                /\ sessionStreams' = sessionStreams]_vars

\* a caller between write and read while another caller has invoked a handler
C8_Witness ==
    \E c, b \in Callers :
        /\ b # c
        /\ pc[c] = "send_read"
        /\ pc[b] = "lock"

InDiscover(c) == op[c].kind = "discover" /\ pc[c] # "return"

\* C9 as stated: while a caller is inside discover, another caller's command
\* handler can take the manager's lock and proceed.
C9_DiscoveryLockFree ==
    \A a, b \in Callers :
        (a # b /\ InDiscover(a) /\ pc[b] = "lock") => ENABLED send_cnc_command(b)

\* C10: discover always returns Ok with a device list, which is empty when no
\* probe of the run returned a device.
C10_DiscoverNeverFails ==
    \A c \in Callers :
        Returning(c, {"discover"}) =>
            /\ ret[c].tag = "Ok"
            /\ disc[c].verified = 0 => ret[c].val = << >>
            /\ Len(ret[c].val) = disc[c].verified

\* discover returning after udp_discovery_fallback returned an error
C10_Witness ==
    \E c \in Callers :
        /\ Returning(c, {"discover"})
        /\ disc[c].udp_result.tag = "Err"
        /\ ret[c] = Ok(<< >>)

\* the markers of a controller's reply
Markers == {"Idle", "Alarm", "Run", "MPos", "VER:"}
HasMarker(reply) == \E m \in Markers : Contains(reply, m)

StartsWith(t, prefix) == Len(t) >= Len(prefix) /\ SubSeq(t, 1, Len(prefix)) = prefix

\* the step in which probe_device, having read the reply, returns
ProbeAnswers(c) ==
    /\ pc[c] \in {"probe_classify", "probe_version"}
    /\ pc'[c] \in {"discover_direct", "udp_push"}

\* C11: once its connection is open and the '?' reply read (an empty string when
\* the read failed), probe_device returns a device exactly when the reply holds a
\* marker; that device has the probed ip and port, and otherwise the result is the
\* 'Not a CNC device' error.
C11_ProbeClassifiesByMarker ==
    [][\A c \in Callers :
        ProbeAnswers(c) =>
            LET r == disc'[c].presult
            IN  /\ (r.tag = "Ok") <=> HasMarker(disc[c].response)
                /\ r.tag = "Ok" => (r.val.ip = disc[c].ip /\ r.val.port = disc[c].port)
                /\ r.tag # "Ok" => (r.tag = "Err" /\ StartsWith(r.err, "Not a CNC device"))]_vars

\* probe_device has returned a device for an announced address
C11_Witness ==
    \E c \in Callers :
        /\ pc[c] = "udp_push"
        /\ disc[c].presult.tag = "Ok"
        /\ disc[c].presult.val.ip = Unwrap(disc[c].broadcast).ip

\* where probe_device holds an open stream
ProbeOpenPcs == {"probe_timeouts", "probe_query", "probe_classify", "probe_version"}

\* C12: outside probe_device no probe stream is open, whatever way the probe
\* ended, and a probe stream is never the manager's session connection.
C12_ProbeClosesConnection ==
    /\ probeStreams = {Unwrap(disc[c].pstream) : c \in {b \in Callers : IsSome(disc[b].pstream)}}
    /\ \A c \in Callers : IsSome(disc[c].pstream) => pc[c] \in ProbeOpenPcs
    /\ probeStreams \cap sessionStreams = {}
    /\ IsSome(current_connection) => Unwrap(current_connection) \notin probeStreams

\* probe_device has returned early because a timeout could not be set
C12_Witness ==
    \E c \in Callers :
        /\ pc[c] = "udp_push"
        /\ disc[c].presult.err = "set_write_timeout"
        /\ probeStreams = {}

\* a datagram that is not UTF-8, is no complete JSON object, or has no numeric port
Unparsed(d) ==
    \/ ~d.utf8
    \/ d.json = None
    \/ ~\E m \in Unwrap(d.json) : m.k = "port" /\ m.t = "number"

\* C13: a datagram that cannot be decoded, or whose candidate fails its probe,
\* leaves the receive loop running with the devices found so far; the loop ends
\* only when the budget has elapsed or a receive timed out, a candidate whose
\* probe succeeds is appended, and what was appended is what is returned.
C13_BadDatagramsDoNotStopLoop ==
    [][\A c \in Callers :
        /\ (/\ pc[c] = "udp_loop"
            /\ disc'[c].elapsed > disc[c].elapsed
            /\ disc'[c].recv.kind = "datagram"
            /\ Unparsed(Unwrap(disc'[c].recv.datagram))) =>
              /\ pc'[c] = "udp_loop"
              /\ disc'[c].udp_devices = disc[c].udp_devices
              /\ disc'[c].udp_result = NoRet
        /\ (pc[c] = "udp_push" /\ pc'[c] # "udp_push" /\ disc[c].presult.tag = "Err") =>
              /\ pc'[c] = "udp_loop"
              /\ disc'[c].udp_devices = disc[c].udp_devices
              /\ disc'[c].udp_result = NoRet
        /\ (pc[c] = "udp_push" /\ pc'[c] # "udp_push" /\ disc[c].presult.tag = "Ok") =>
              /\ pc'[c] = "udp_loop"
              /\ Len(disc'[c].udp_devices) = Len(disc[c].udp_devices) + 1
              /\ SubSeq(disc'[c].udp_devices, 1, Len(disc[c].udp_devices)) = disc[c].udp_devices
              /\ Last(disc'[c].udp_devices).ip = Unwrap(disc[c].broadcast).ip
              /\ Last(disc'[c].udp_devices).port = Unwrap(disc[c].broadcast).port
        /\ (pc[c] = "udp_loop" /\ pc'[c] = "discover_udp") =>
              /\ ~(disc[c].elapsed < Budget) \/ disc'[c].recv.kind = "timed out"
              /\ disc'[c].udp_result = Ok(disc[c].udp_devices)
        /\ (pc[c] = "discover_udp" /\ pc'[c] = "return" /\ disc[c].udp_result.tag = "Ok") =>
              ret'[c] = Ok(disc[c].udp_devices)]_vars

\* after the probe of an earlier candidate failed, a later candidate's probe has
\* returned a device
C13_Witness ==
    \E c \in Callers :
        /\ pc[c] = "udp_push"
        /\ disc[c].presult.tag = "Ok"
        /\ disc[c].probes = 3
        /\ disc[c].verified = 1

\* the step in which the receive loop of caller c takes something from the socket
Receives(c) == pc[c] = "udp_loop" /\ disc'[c].elapsed > disc[c].elapsed

\* C14: once one announced candidate has been probed successfully, announcement
\* discovery receives no further datagram and probes no further candidate.
C14_StopsOnFirstSuccess ==
    [][\A c \in Callers :
        (InDiscover(c) /\ disc[c].udp_devices # << >>) =>
            /\ ~Receives(c)
            /\ disc'[c].probes <= disc[c].probes]_vars

\* the announcement of the specification's scenario: the port is a string and
\* the identifier comes under the key uuid
ScenarioAnnouncement ==
    Datagram(TRUE, Some({Str("ip", "192.168.1.50"), Str("port", "10086"),
                         Str("name", "Shop CNC"), Str("uuid", "AA:BB:CC")}))

\* C15: the scenario's announcement, once received, is decoded into the candidate
\* 192.168.1.50:10086 named "Shop CNC" with mac Some("AA:BB:CC") and goes to the
\* probe; a candidate whose probe succeeds with a reply without VER: is returned
\* as the device with the candidate's name, ip, port and mac and no firmware.
C15_LenientDecode ==
    [][\A c \in Callers :
        /\ (Receives(c) /\ disc'[c].recv = [kind |-> "datagram",
                                            datagram |-> Some(ScenarioAnnouncement)]) =>
              /\ pc'[c] = "probe"
              /\ disc'[c].broadcast = Some([ip |-> "192.168.1.50", port |-> 10086,
                                            name |-> "Shop CNC", mac |-> Some("AA:BB:CC")])
        /\ (/\ pc[c] = "udp_push" /\ pc'[c] # "udp_push"
            /\ disc[c].presult.tag = "Ok"
            /\ disc[c].presult.val.firmware = None) =>
              LET b == Unwrap(disc[c].broadcast)
              IN  Last(disc'[c].udp_devices) = Device(b.name, b.ip, b.port, b.mac, None)]_vars

\* C16: at most one session connection, a stream opened by connect and not yet
\* released, is open in every reachable state.
C16_AtMostOneSessionStream == Cardinality(sessionStreams) <= 1

\* C17: the manager holds a connection exactly when it holds a device binding;
\* the binding is written only by a connect, which then succeeds, with its
\* argument, and cleared only by disconnect, so the bound device is the argument
\* of the latest successful connect; a failed connect leaves both as they were;
\* get_connection_status never reports connected = false.
C17_BindingIsLatestConnect ==
    /\ [](IsSome(current_connection) <=> IsSome(device_info))
    /\ [](get_connection_status = None \/ Unwrap(get_connection_status).connected)
    /\ [](\A c \in Callers :
            Returning(c, {"connect"}) =>
                IF ret[c].tag = "Ok"
                THEN /\ device_info = op[c].device
                     /\ current_connection = stream[c]
                ELSE /\ device_info = pre[c].dev
                     /\ current_connection = pre[c].conn)
    /\ [][device_info' # device_info =>
            \E c \in Callers :
                \/ /\ pc[c] = "connect_store"
                   /\ pc'[c] = "send_command"
                   /\ device_info' = op[c].device
                \/ /\ pc[c] = "disconnect"
                   /\ device_info' = None]_vars

\* a connect made while bound to another device has succeeded, and the status
\* reports its argument
C17_Witness ==
    \E c \in Callers :
        /\ Returning(c, {"connect"})
        /\ ret[c].tag = "Ok"
        /\ IsSome(pre[c].dev)
        /\ pre[c].dev # op[c].device
        /\ get_connection_status = Some([device |-> Unwrap(op[c].device), connected |-> TRUE])

Range(q) == {q[i] : i \in 1..Len(q)}

\* C18: every device discover_devices holds or returns, from the direct address
\* or from an announcement, has the ip and port of a probe that returned a device
\* during the same call.
C18_ReturnedDevicesPassedProbe ==
    \A c \in Callers :
        op[c].kind = "discover" =>
            /\ \A d \in Range(disc[c].devices) \cup Range(disc[c].udp_devices) :
                   <<d.ip, d.port>> \in disc[c].passed
            /\ (pc[c] = "return" /\ ret[c].tag = "Ok") =>
                   \A d \in Range(ret[c].val) : <<d.ip, d.port>> \in disc[c].passed

\* discover_devices returns a device learned from an announcement
C18_Witness ==
    \E c \in Callers :
        /\ Returning(c, {"discover"})
        /\ ret[c].tag = "Ok"
        /\ \E d \in Range(ret[c].val) : d.ip = "192.168.1.51" /\ d.name = "Garage CNC"

\* the texts the derived operations put on the wire for the modelled arguments
WireTexts(kind) ==
    CASE kind = "get_status" -> {"?\n"}
      [] kind = "home" -> {"$H\n"}
      [] kind = "reset" -> {"^X\n"}
      [] kind = "set_work_zero" -> {"G10L20P1X0Y0Z0\n"}
      [] kind = "jog" -> {"$J=G91X5F500\n", "$J=G91X-0.5F500\n"}
      [] OTHER -> {cmd \o "\n" : cmd \in Commands}

\* C20: send_command and each derived operation, when Connected, writes once,
\* the command followed by one newline, and reads once only after a successful
\* write; when Disconnected it does no I/O; when it returns, with a reply or with
\* an error, the connection, the device binding and the open session streams are
\* those it found.
C20_OneWriteOneRead ==
    \A c \in Callers :
        /\ (op[c].kind \in SendKinds /\ pc[c] = "send_read") =>
              /\ io[c] = <<"write:ok">>
              /\ IsSome(pending)
              /\ Unwrap(pending).by = c
              /\ Unwrap(pending).stream = Unwrap(pre[c].conn)
              /\ Unwrap(pending).data = op[c].cmd \o "\n"
              /\ Unwrap(pending).data \in WireTexts(op[c].kind)
        /\ Returning(c, SendKinds) =>
              /\ IF pre[c].conn = None
                 THEN io[c] = << >> /\ ret[c] = Err(NotConnectedErr)
                 ELSE \/ io[c] = <<"write:err">> /\ ret[c].tag = "Err"
                      \/ io[c] = <<"write:ok", "read:err">> /\ ret[c].tag = "Err"
                      \/ io[c] = <<"write:ok", "read:ok">> /\ ret[c].tag = "Ok"
              /\ current_connection = pre[c].conn
              /\ device_info = pre[c].dev
              /\ sessionStreams = HeldBefore(c)
              /\ pending = None

\* a jog made while Connected has written and read once and returned the reply
C20_Witness ==
    \E c \in Callers :
        /\ Returning(c, {"jog"})
        /\ IsSome(pre[c].conn)
        /\ io[c] = <<"write:ok", "read:ok">>
        /\ ret[c].tag = "Ok"

\* C19: a caller in the receive loop of announcement discovery eventually leaves
\* it and discover_devices returns, whatever datagrams arrive (the caller in the
\* loop holds the manager's mutex, so the call that returns is its own).
C19_AnnouncementDiscoveryTerminates ==
    (\E c \in Callers : pc[c] = "udp_loop")
        ~> (\E c \in Callers : /\ Returning(c, {"discover"})
                                /\ ret[c].tag = "Ok"
                                /\ Last(disc[c].order) = "udp"
                                /\ disc[c].udp_result.tag = "Ok")

\* the loop has ended on the elapsed-time test, the last thing received being a
\* datagram that could not be decoded
C19_Witness ==
    \E c \in Callers :
        /\ pc[c] = "discover_udp"
        /\ ~(disc[c].elapsed < Budget)
        /\ disc[c].recv.kind = "datagram"
        /\ Unparsed(Unwrap(disc[c].recv.datagram))
        /\ disc[c].udp_result = Ok(<< >>)

\* C21: the list discover_devices returns never holds two devices with the same
\* ip and port.
C21_ResultHasNoDuplicates ==
    \A c \in Callers :
        (Returning(c, {"discover"}) /\ ret[c].tag = "Ok") =>
            \A i, j \in 1..Len(ret[c].val) :
                (ret[c].val[i].ip = ret[c].val[j].ip /\ ret[c].val[i].port = ret[c].val[j].port)
                    => i = j

====
